---- MODULE Spec2Model ----
(***************************************************************************)
(* Model of class RangeList (src/src/rangeList.js): a list of half-open    *)
(* integer ranges [start, end) with add (merge) and remove (trim / split / *)
(* delete).  A JavaScript array [a, b] is the tuple <<a, b>>, so the       *)
(* source's range[0] is range[1] here and range[1] is range[2].  List      *)
(* indices (startIdx, endIdx, idx) keep the source's 0-based values; the   *)
(* element at 0-based index i of a list rl is At(rl, i).                   *)
(***************************************************************************)
EXTENDS Integers, Sequences, FiniteSets, TLC

\* Largest integer used as a range bound by the modelled caller.
MaxVal == 4

Values == 0 .. MaxVal

\* Well-shaped arguments: arrays of two integers (in either order).
Pairs == { <<a, b>> : a \in Values, b \in Values }

\* Arguments of the wrong shape, represented by arrays of the wrong length.
Malformed == { <<>>, <<0>>, <<0, 0, 0>> }

Inputs == Pairs \cup Malformed

Min(a, b) == IF a <= b THEN a ELSE b

Max(a, b) == IF a >= b THEN a ELSE b

\* Element at 0-based index i.
At(rl, i) == rl[i + 1]

\* Array.prototype.splice(start, deleteCount, ...items) on a 0-based start
\* within 0 .. length; a negative deleteCount deletes nothing.
Splice(rl, start, deleteCount, items) ==
    LET dc == Max(0, Min(deleteCount, Len(rl) - start))
    IN  SubSeq(rl, 1, start) \o items \o SubSeq(rl, start + dc + 1, Len(rl))

\* Variant of isValid that also rejects a beginning equal to the end.
isValidRejectsEqual(range) ==
    IF Len(range) # 2 THEN "TypeError"
    ELSE IF range[1] >= range[2] THEN "TypeError"
    ELSE "ok"

\* isValid: "TypeError" when the argument is not an array of two integers or
\* its beginning is greater than its end, "ok" otherwise.
isValid(range) ==
    IF Len(range) # 2 THEN "TypeError"
    ELSE IF range[1] > range[2] THEN "TypeError"
    ELSE "ok"

----------------------------------------------------------------------------
\* add

\* Variant of ReachesStart with a strict comparison: a stored range that only
\* touches the beginning of the new range is not a candidate.
ReachesStartStrict(cur, range) == cur[2] > range[1]

\* Comparison that makes a stored range a candidate for startIdx.
ReachesStart(cur, range) == cur[2] >= range[1]

\* Variant of BeginsBeforeEnd that reads the end of the stored range instead
\* of its beginning.
BeginsBeforeEndWrongIndex(cur, range) == cur[2] <= range[2]

\* Comparison that makes a stored range a candidate for endIdx.
BeginsBeforeEnd(cur, range) == cur[1] <= range[2]

RECURSIVE ScanLoop(_, _, _, _, _)
\* The for loop of add: one pass over the whole list computing startIdx, endIdx.
ScanLoop(rl, range, idx, startIdx, endIdx) ==
    IF idx >= Len(rl) THEN [startIdx |-> startIdx, endIdx |-> endIdx]
    ELSE ScanLoop(rl, range, idx + 1,
                  IF ReachesStart(At(rl, idx), range) THEN Min(idx, startIdx) ELSE startIdx,
                  IF BeginsBeforeEnd(At(rl, idx), range) THEN Max(idx, endIdx) ELSE endIdx)

Scan(rl, range) == ScanLoop(rl, range, 0, Len(rl), -1)

\* Variant of MergedRange that takes the end of the last merged range without
\* comparing it with the end of the new range.
MergedRangeNoMax(rl, range, startIdx, endIdx) ==
    LET r0 == Min(range[1], At(rl, startIdx)[1])
        r1 == At(rl, endIdx)[2]
    IN  <<r0, r1>>

\* The two assignments of the merge branch, in the source's order.
MergedRange(rl, range, startIdx, endIdx) ==
    LET r0 == Min(range[1], At(rl, startIdx)[1])
        r1 == Max(range[2], At(rl, endIdx)[2])
    IN  <<r0, r1>>

\* Variant of MergeDeleteCount that is one short.
MergeDeleteCountShort(startIdx, endIdx) == endIdx - startIdx

\* Number of elements the merge branch asks splice to delete.
MergeDeleteCount(startIdx, endIdx) == endIdx - startIdx + 1

\* Body of add for an argument that passed isValid.  Yields the list after
\* the call and the caller's array after the call (the merge branch writes
\* into it).
add(rl, range) ==
    IF Len(rl) = 0 THEN [rangeList |-> Append(rl, range), range |-> range]
    ELSE LET sc == Scan(rl, range)
         IN  IF sc.startIdx = Len(rl)
                 THEN [rangeList |-> Append(rl, range), range |-> range]
             ELSE IF sc.endIdx = -1
                 THEN [rangeList |-> <<range>> \o rl, range |-> range]
             ELSE LET m == MergedRange(rl, range, sc.startIdx, sc.endIdx)
                  IN  [rangeList |-> Splice(rl, sc.startIdx,
                                            MergeDeleteCount(sc.startIdx, sc.endIdx), <<m>>),
                       range |-> m]

----------------------------------------------------------------------------
\* remove

\* Variant of NoOverlap that only tests for a stored range to the left.
NoOverlapLeftOnly(cur, range) == cur[2] <= range[1]

NoOverlap(cur, range) == cur[2] <= range[1] \/ cur[1] > range[2]

\* Variant of IsLeftSide with a strict comparison of the ends.
IsLeftSideStrict(cur, range) == range[1] <= cur[1] /\ range[2] < cur[2]

IsLeftSide(cur, range) == range[1] <= cur[1] /\ range[2] <= cur[2]

IsInside(cur, range) == range[1] >= cur[1] /\ range[2] <= cur[2]

IsRightSide(cur, range) == range[1] >= cur[1] /\ range[2] >= cur[2]

\* Variant of CutLeft that assigns the beginning of the given range.
CutLeftAtStart(cur, range) == <<range[1], cur[2]>>

\* curRange[0] = range[1]
CutLeft(cur, range) == <<range[2], cur[2]>>

\* Variant of SplitAround that splices the two ranges in the other order.
SplitAroundSwapped(cur, range) == << <<range[2], cur[2]>>, <<cur[1], range[1]>> >>

\* the two ranges spliced in place of curRange
SplitAround(cur, range) == << <<cur[1], range[1]>>, <<range[2], cur[2]>> >>

\* curRange[1] = range[0]
CutRight(cur, range) == <<cur[1], range[1]>>

\* Value of the flag `remove` after the branch that deletes curRange.
FlagAfterDelete(remove) == remove

\* Variant of AfterDelete without the idx -= 1 of the delete branch.
AfterDeleteNoStepBack(idx) == idx + 1

\* Index of the next iteration after the branch that splits curRange:
\* idx += 1 in the body, then the loop's idx += 1.
AfterSplit(idx) == (idx + 1) + 1

\* Index of the next iteration after the branch that deletes curRange:
\* idx -= 1 in the body, then the loop's idx += 1.
AfterDelete(idx) == (idx - 1) + 1

RECURSIVE RemoveLoop(_, _, _, _, _, _)
\* The for loop of remove; each branch continues at the index the source's
\* body leaves plus the loop's idx += 1.  orig runs parallel to rl and holds,
\* for each element, its 0-based index in the list the call started with
\* (-1 for an element the loop spliced in); visited collects orig of the
\* element each iteration reads as curRange.
RemoveLoop(rl, range, idx, remove, orig, visited) ==
    IF idx >= Len(rl) THEN [rangeList |-> rl, remove |-> remove, visited |-> visited]
    ELSE LET curRange == At(rl, idx)
             seen == Append(visited, At(orig, idx))
         IN  IF NoOverlap(curRange, range)
                 THEN RemoveLoop(rl, range, idx + 1, remove, orig, seen)
             ELSE IF IsLeftSide(curRange, range)
                 THEN RemoveLoop([rl EXCEPT ![idx + 1] = CutLeft(curRange, range)],
                                 range, idx + 1, TRUE, orig, seen)
             ELSE IF IsInside(curRange, range)
                 THEN RemoveLoop(Splice(rl, idx, 1, SplitAround(curRange, range)),
                                 range, AfterSplit(idx), TRUE,
                                 Splice(orig, idx, 1, <<-1, -1>>), seen)
             ELSE IF IsRightSide(curRange, range)
                 THEN RemoveLoop([rl EXCEPT ![idx + 1] = CutRight(curRange, range)],
                                 range, idx + 1, TRUE, orig, seen)
             ELSE RemoveLoop(Splice(rl, idx, 1, <<>>),
                             range, AfterDelete(idx), FlagAfterDelete(remove),
                             Splice(orig, idx, 1, <<>>), seen)

\* Body of remove for an argument that passed isValid: the list after the
\* loop, whether the call returns ("ok") or throws ("RangeError"), and the
\* original indices the loop visited, in order.
remove(rl, range) ==
    LET res == IF Len(rl) > 0
                   THEN RemoveLoop(rl, range, 0, FALSE, [i \in 1 .. Len(rl) |-> i - 1], <<>>)
               ELSE [rangeList |-> rl, remove |-> FALSE, visited |-> <<>>]
    IN  [rangeList |-> res.rangeList,
         outcome   |-> IF res.remove THEN "ok" ELSE "RangeError",
         visited   |-> res.visited]

----------------------------------------------------------------------------
\* State

VARIABLES
    rangeList,  \* this.rangeList
    before,     \* this.rangeList as it was when the last call started
    op,         \* the last call: "new" (none yet), "add" or "remove"; "idle" once
                \* the caller has moved on from it
    arg,        \* the argument of the last call, as passed
    range,      \* the caller's argument array as it is after the last call
    outcome,    \* how the last call ended: "ok", "TypeError" or "RangeError"
    clean,      \* TRUE while no call on this instance has thrown
    visited     \* original indices read by the loop of the last remove, in order

vars == <<rangeList, before, op, arg, range, outcome, clean, visited>>

\* constructor
Init ==
    /\ rangeList = <<>>
    /\ before = <<>>
    /\ op = "new"
    /\ arg = <<>>
    /\ range = <<>>
    /\ outcome = "ok"
    /\ clean = TRUE
    /\ visited = <<>>

\* The caller is between two statements: no call is being looked at.
Ready == op \in {"new", "idle"}

\* A call whose argument isValid rejects: the TypeError leaves the list alone.
Rejected(name, r) ==
    /\ Ready
    /\ isValid(r) = "TypeError"
    /\ rangeList' = rangeList
    /\ before' = rangeList
    /\ op' = name
    /\ arg' = r
    /\ range' = r
    /\ outcome' = "TypeError"
    /\ clean' = FALSE
    /\ visited' = <<>>

AddOk(r) ==
    /\ Ready
    /\ isValid(r) = "ok"
    /\ \E res \in { add(rangeList, r) } :
           /\ rangeList' = res.rangeList
           /\ range' = res.range
    /\ before' = rangeList
    /\ op' = "add"
    /\ arg' = r
    /\ outcome' = "ok"
    /\ clean' = clean
    /\ visited' = <<>>

\* rl.add(r)
Add == \E r \in Inputs : AddOk(r) \/ Rejected("add", r)

RemoveCall(r) ==
    /\ Ready
    /\ isValid(r) = "ok"
    /\ \E res \in { remove(rangeList, r) } :
           /\ rangeList' = res.rangeList
           /\ outcome' = res.outcome
           /\ clean' = (clean /\ res.outcome = "ok")
           /\ visited' = res.visited
    /\ before' = rangeList
    /\ op' = "remove"
    /\ arg' = r
    /\ range' = r

\* rl.remove(r)
Remove == \E r \in Inputs : RemoveCall(r) \/ Rejected("remove", r)

\* The caller goes on to its next statement: what the last call was given
\* and how it ended are no longer looked at; the list stays as the call left it.
Return ==
    /\ op \in {"add", "remove"}
    /\ op' = "idle"
    /\ before' = <<>>
    /\ arg' = <<>>
    /\ range' = <<>>
    /\ outcome' = "ok"
    /\ visited' = <<>>
    /\ UNCHANGED <<rangeList, clean>>

Next == Add \/ Remove \/ Return

Spec == Init /\ [][Next]_vars

----------------------------------------------------------------------------
\* Vocabulary of the properties

\* Integers a range can cover, with a margin on both sides.
Points == -1 .. MaxVal + 1

\* { n : start <= n < end }
RangeSet(r) == { n \in Points : r[1] <= n /\ n < r[2] }

\* The set of integers covered by a list of ranges.
Covered(rl) == UNION { RangeSet(rl[i]) : i \in 1 .. Len(rl) }

IsPair(r) == Len(r) = 2

AddReturned == op = "add" /\ outcome = "ok"

RemoveReturned == op = "remove" /\ outcome = "ok"

RemoveThrew == op = "remove" /\ outcome = "RangeError"

\* A stored range that add's comparisons treat as overlapping or touching r.
Touches(cur, r) == cur[2] >= r[1] /\ cur[1] <= r[2]

\* A list without its k-th (1-based) element.
Without(rl, k) == SubSeq(rl, 1, k - 1) \o SubSeq(rl, k + 1, Len(rl))

----------------------------------------------------------------------------
\* C1: after any sequence of calls that all returned normally, the list is
\* ordered ascending by start and every adjacent pair satisfies
\* i.end < (i+1).start (no overlap, no touching).
C1_SortedDisjoint ==
    clean => \A i \in 1 .. Len(rangeList) - 1 :
                 /\ rangeList[i][1] <= rangeList[i + 1][1]
                 /\ rangeList[i][2] < rangeList[i + 1][1]

\* C2: after any sequence of calls that all returned normally (empty ranges
\* included among the arguments), no stored range has start >= end.
C2_NoEmptyStored ==
    clean => \A i \in 1 .. Len(rangeList) : rangeList[i][1] < rangeList[i][2]

\* C3: add is set union: after add([s,e)) returns, the integers covered by
\* the list are those covered before the call together with s .. e-1.
C3_AddIsUnion ==
    AddReturned => Covered(rangeList) = Covered(before) \cup RangeSet(arg)

\* C3 witness: an add that merged several stored ranges and covered new integers.
C3_Witness ==
    /\ AddReturned
    /\ Len(before) >= 2
    /\ Len(rangeList) < Len(before)
    /\ ~ (RangeSet(arg) \subseteq Covered(before))
    /\ \A i \in 1 .. Len(before) : before[i][1] < before[i][2]

\* C4: remove is set difference: whenever remove([s,e)) returns normally, the
\* integers covered afterwards are those covered before minus s .. e-1, also
\* when the range spans several stored ranges.
C4_RemoveIsDifference ==
    RemoveReturned => Covered(rangeList) = Covered(before) \ RangeSet(arg)

\* C4 witness: a successful remove spanning several non-empty stored ranges,
\* one of them deleted outright and another trimmed.
C4_Witness ==
    /\ RemoveReturned
    /\ Len(rangeList) < Len(before)
    /\ \A i \in 1 .. Len(before) : before[i][1] < before[i][2]
    /\ \A i \in 1 .. Len(rangeList) : rangeList[i][1] < rangeList[i][2]
    /\ \E i \in 1 .. Len(before) :
           /\ RangeSet(before[i]) \cap RangeSet(arg) # {}
           /\ ~ (RangeSet(before[i]) \subseteq RangeSet(arg))
    /\ \E j \in 1 .. Len(before) :
           /\ RangeSet(before[j]) # {}
           /\ arg[1] < before[j][1] /\ before[j][2] < arg[2]

\* C5: a remove that throws RangeError leaves the list exactly as it was.
C5_FailedRemoveUnchanged ==
    RemoveThrew => rangeList = before

\* C6: remove returns normally exactly when some stored range shares an
\* integer with the argument, and throws RangeError exactly otherwise.
C6_RemoveSucceedsIffOverlap ==
    (op = "remove" /\ outcome # "TypeError") =>
        (outcome = "ok" <=> Covered(before) \cap RangeSet(arg) # {})

\* C7: add of an empty range [s,s) succeeds and leaves the list exactly as it
\* was; on an empty list it leaves the list empty.
C7_AddEmptyIsNoOp ==
    (op = "add" /\ IsPair(arg) /\ arg[1] = arg[2]) =>
        (outcome = "ok" /\ rangeList = before)

\* C8: add of a range all of whose integers are already covered leaves the
\* list unchanged.
C8_SubsetNoOp ==
    (AddReturned /\ RangeSet(arg) \subseteq Covered(before)) => rangeList = before

C10_TouchMerge ==
    AddReturned =>
        /\ \A a \in Values :
               (a < arg[1] /\ arg[1] < arg[2] /\ before = add(<<>>, <<a, arg[1]>>).rangeList)
                   => rangeList = << <<a, arg[2]>> >>
        /\ LET T == { i \in 1 .. Len(before) : Touches(before[i], arg) }
               lo == CHOOSE x \in {arg[1]} \cup { before[i][1] : i \in T } :
                         \A y \in {arg[1]} \cup { before[i][1] : i \in T } : x <= y
               hi == CHOOSE x \in {arg[2]} \cup { before[i][2] : i \in T } :
                         \A y \in {arg[2]} \cup { before[i][2] : i \in T } : x >= y
               NotTouching(cur) == ~ Touches(cur, arg)
           IN  /\ Len(rangeList) = Len(before) - Cardinality(T) + 1
               /\ \E k \in 1 .. Len(rangeList) :
                      /\ rangeList[k] = <<lo, hi>>
                      /\ Without(rangeList, k) = SelectSeq(before, NotTouching)

\* C10 witness: an add of a non-empty range that only touched (shared no
\* integer with) a non-empty stored range and was merged with it.
C10_Witness ==
    /\ AddReturned
    /\ arg[1] < arg[2]
    /\ RangeSet(arg) \cap Covered(before) = {}
    /\ \E i \in 1 .. Len(before) :
           /\ before[i][1] < before[i][2]
           /\ before[i][2] = arg[1]
    /\ Len(rangeList) = Len(before)

----------------------------------------------------------------------------
\* Vocabulary of the properties (continued)

\* A call whose argument passed isValid.
Validated == op \in {"add", "remove"} /\ outcome # "TypeError"

\* Arguments isValid accepts.
ValidPairs == { r \in Pairs : r[1] <= r[2] }

RECURSIVE IsSubSeq(_, _)
\* s can be obtained from t by dropping elements (order kept).
IsSubSeq(s, t) ==
    IF Len(s) = 0 THEN TRUE
    ELSE IF Len(t) = 0 THEN FALSE
    ELSE IF Head(s) = Head(t) THEN IsSubSeq(Tail(s), Tail(t))
    ELSE IsSubSeq(s, Tail(t))

\* start <= end for every stored range and end <= next start for every
\* adjacent pair.
WeaklyCanonical(rl) ==
    /\ \A i \in 1 .. Len(rl) : rl[i][1] <= rl[i][2]
    /\ \A i \in 1 .. Len(rl) - 1 : rl[i][2] <= rl[i + 1][1]

----------------------------------------------------------------------------
\* C11: round trip: add(r) followed by remove(r) on a previously empty list
\* leaves the list empty, for every valid range r.
C11_RoundTrip ==
    (op = "remove" /\ outcome # "TypeError" /\ before = add(<<>>, arg).rangeList)
        => rangeList = <<>>

\* C12: for an array of two integers [a, b], add and remove end in TypeError
\* if and only if a > b (a = b passes), and a call that ends in TypeError
\* leaves the list as it was.
C12_Validation ==
    /\ (op \in {"add", "remove"} /\ IsPair(arg)) =>
           (outcome = "TypeError" <=> arg[1] > arg[2])
    /\ outcome = "TypeError" => rangeList = before

\* C12 witness: a call with a > b rejected on a non-empty list.
C12_Witness ==
    /\ op \in {"add", "remove"}
    /\ IsPair(arg)
    /\ arg[1] > arg[2]
    /\ outcome = "TypeError"
    /\ Len(before) > 0

\* C13: ranges are copied in, never aliased; in particular add(r) does not
\* modify the caller's array r: after the call it holds what was passed.
C13_CallerRangeUntouched ==
    AddReturned => range = arg

\* C14: remove of an empty range [s,s) leaves the list exactly as it was,
\* whether it throws RangeError or returns; and it returns only when s is
\* the start or the end of a stored range.
C14_RemoveEmptyKeepsList ==
    (op = "remove" /\ IsPair(arg) /\ arg[1] = arg[2]) =>
        /\ rangeList = before
        /\ \/ outcome = "RangeError"
           \/ /\ outcome = "ok"
              /\ \E i \in 1 .. Len(before) :
                     before[i][1] = arg[1] \/ before[i][2] = arg[1]

\* C15: when the range [s,e) with s < e given to remove equals a stored
\* range, the left-side case is the one that applies to it (it overlaps and
\* s <= cur.start, e <= cur.end), the call returns normally, and the range
\* stays in the list, at the same position, as the empty range [e,e).
C15_ExactMatchLeavesEmpty ==
    (op = "remove" /\ IsPair(arg) /\ arg[1] < arg[2]) =>
        \A k \in 1 .. Len(before) :
            before[k] = arg =>
                /\ ~ (before[k][2] <= arg[1] \/ before[k][1] > arg[2])
                /\ arg[1] <= before[k][1] /\ arg[2] <= before[k][2]
                /\ outcome = "ok"
                /\ Len(rangeList) = Len(before)
                /\ rangeList[k] = <<arg[2], arg[2]>>

\* C15 witness: a remove of exactly the second of two stored ranges.
C15_Witness ==
    /\ RemoveReturned
    /\ arg[1] < arg[2]
    /\ Len(before) >= 2
    /\ before[2] = arg
    /\ rangeList[2] = <<arg[2], arg[2]>>

\* C16: remove leaves alone every stored range cur with cur.end <= s or
\* cur.start > e: after remove([s,e)), whether it returned or threw
\* RangeError, those ranges are all present, unchanged and in the same
\* relative order.
C16_NonOverlappingKept ==
    (op = "remove" /\ outcome # "TypeError") =>
        LET Apart(cur) == cur[2] <= arg[1] \/ cur[1] > arg[2]
        IN  IsSubSeq(SelectSeq(before, Apart), rangeList)

\* C16 witness: a remove that changed the list while a range on each side
\* of the given range stayed.
C16_Witness ==
    /\ RemoveReturned
    /\ rangeList # before
    /\ \E i \in 1 .. Len(before) : before[i][2] <= arg[1] /\ before[i][1] < before[i][2]
    /\ \E j \in 1 .. Len(before) : before[j][1] > arg[2]

\* C17: in every reachable state, for every valid range (start, end), the
\* indices with sequence[i].end >= start form a suffix and those with
\* sequence[j].start <= end form a prefix, so add's scan finds the first
\* index of the suffix and the last of the prefix; and whenever add reaches
\* its merge branch, startIdx <= endIdx + 1 and the deleteCount
\* endIdx - startIdx + 1 is not negative.
C17_SuffixPrefix ==
    \A r \in ValidPairs :
        LET n == Len(rangeList)
            sc == Scan(rangeList, r)
        IN  /\ \A i \in 1 .. n - 1 :
                   rangeList[i][2] >= r[1] => rangeList[i + 1][2] >= r[1]
            /\ \A j \in 2 .. n :
                   rangeList[j][1] <= r[2] => rangeList[j - 1][1] <= r[2]
            /\ \A i \in 0 .. n - 1 :
                   /\ (i >= sc.startIdx) <=> (rangeList[i + 1][2] >= r[1])
                   /\ (i <= sc.endIdx) <=> (rangeList[i + 1][1] <= r[2])
            /\ (n > 0 /\ sc.startIdx # n /\ sc.endIdx # -1) =>
                   /\ sc.startIdx <= sc.endIdx + 1
                   /\ sc.endIdx - sc.startIdx + 1 >= 0

\* C17 witness: an add that took the merge branch with startIdx = endIdx + 1
\* (nothing to replace) between two stored ranges.
C17_Witness ==
    /\ AddReturned
    /\ Len(before) >= 2
    /\ LET sc == Scan(before, arg)
       IN  /\ sc.startIdx # Len(before)
           /\ sc.endIdx # -1
           /\ sc.startIdx = sc.endIdx + 1
    /\ Len(rangeList) = Len(before) + 1

\* C18: the loop of remove runs to completion and reads every range of the
\* list the call started with exactly once, in order, whatever it splices in
\* or deletes on the way.
C18_RemoveVisitsEachOnce ==
    (op = "remove" /\ outcome # "TypeError") =>
        visited = [i \in 1 .. Len(before) |-> i - 1]

\* C18 witness: a remove that deleted a non-empty range and went on to read a
\* later one.
C18_Witness ==
    /\ op = "remove"
    /\ outcome # "TypeError"
    /\ Len(rangeList) < Len(before)
    /\ \E i \in 1 .. Len(before) - 1 :
           /\ before[i][1] < before[i][2]
           /\ arg[1] < before[i][1] /\ before[i][2] < arg[2]
    /\ Len(visited) >= 2

\* C19: in every reachable state, the one left by a remove that threw
\* RangeError included, every stored range has start <= end and every
\* adjacent pair has i.end <= (i+1).start.
C19_WeaklyCanonical ==
    WeaklyCanonical(rangeList)

\* C19 witness: a list holding an empty range and two touching ranges after
\* a remove that threw RangeError.
C19_Witness ==
    /\ RemoveThrew
    /\ rangeList # before
    /\ \E i \in 1 .. Len(rangeList) : rangeList[i][1] = rangeList[i][2]
    /\ \E i \in 1 .. Len(rangeList) - 1 :
           /\ rangeList[i][2] = rangeList[i + 1][1]
           /\ rangeList[i][1] < rangeList[i][2]
           /\ rangeList[i + 1][1] < rangeList[i + 1][2]

====
